---- MODULE Spec2Model ----
(***************************************************************************)
(* datascan-data-pattern-replacer (src/main.py).                           *)
(*                                                                         *)
(* A run of main(): the patterns file is loaded, a DataPatternReplacer is  *)
(* built, the input file is read as text lines, CSV fields or JSON leaves, *)
(* every string is passed through replace_patterns and the results are     *)
(* written to the output file.                                             *)
(*                                                                         *)
(* Strings are sequences of one-character strings.  A regular expression   *)
(* is a fixed-length sequence of character classes (or is malformed); a    *)
(* replacement string is a sequence of template tokens: a plain character, *)
(* the whole-match back-reference \g<0>, or the group reference \1, which  *)
(* is invalid for every expression here since none has a group.            *)
(***************************************************************************)
EXTENDS Integers, Sequences, FiniteSets

\* ---------------------------------------------------------------- bounds
MaxLen == 4        \* longest input string
MaxPatterns == 2   \* most entries in the patterns mapping
MaxUnits == 2      \* most lines / fields / leaves in the input file
MaxPairLen == 2    \* longest line of an input file that holds the same line twice

\* ---------------------------------------------------------------- strings
Chars == {"a", "b"}

StringsUpTo(n) == UNION {[1..k -> Chars] : k \in 0..n}

SeqsUpTo(S, n) == UNION {[1..k -> S] : k \in 0..n}

RECURSIVE Concat(_)
Concat(ss) == IF ss = <<>> THEN <<>> ELSE Head(ss) \o Concat(Tail(ss))

\* ---------------------------------------------------------------- re
\* re.compile(pattern): a malformed expression raises re.error
CompileOk(expr) == expr.ok

\* the expression matches s at position i (1-based)
MatchAt(cls, s, i) ==
    /\ i + Len(cls) - 1 <= Len(s)
    /\ \A k \in 1..Len(cls) : s[i + k - 1] \in cls[k]

\* start positions of the leftmost non-overlapping matches, scanning from i
RECURSIVE Scan(_, _, _)
Scan(cls, s, i) ==
    IF i > Len(s) THEN <<>>
    ELSE IF MatchAt(cls, s, i) THEN <<i>> \o Scan(cls, s, i + Len(cls))
    ELSE Scan(cls, s, i + 1)

FindAll(cls, s) == Scan(cls, s, 1)

MatchText(cls, s, i) == SubSeq(s, i, i + Len(cls) - 1)

\* the replacement template parses: \1 names a group no expression has
BackRef0 == "\\g<0>"
BackRef1 == "\\1"
TemplateOk(tpl) == \A k \in 1..Len(tpl) : tpl[k] # BackRef1

\* match.expand(template)
Expand(tpl, m) ==
    Concat([k \in 1..Len(tpl) |-> IF tpl[k] = BackRef0 THEN m ELSE <<tpl[k]>>])

\* a substitution that replaces the first match only (count=1)
RECURSIVE SubFirst(_, _, _, _, _)
SubFirst(cls, s, i, k, reps) ==
    IF i > Len(s) THEN <<>>
    ELSE IF MatchAt(cls, s, i)
         THEN reps[k] \o SubSeq(s, i + Len(cls), Len(s))
         ELSE <<s[i]>> \o SubFirst(cls, s, i + 1, k, reps)

\* a substitution that stops one character early
RECURSIVE SubShort(_, _, _, _, _)
SubShort(cls, s, i, k, reps) ==
    IF i >= Len(s) THEN <<>>
    ELSE IF MatchAt(cls, s, i)
         THEN reps[k] \o SubShort(cls, s, i + Len(cls), k + 1, reps)
         ELSE <<s[i]>> \o SubShort(cls, s, i + 1, k, reps)

\* the scanned string with the k-th match replaced by reps[k]
RECURSIVE SubFrom(_, _, _, _, _)
SubFrom(cls, s, i, k, reps) ==
    IF i > Len(s) THEN <<>>
    ELSE IF MatchAt(cls, s, i)
         THEN reps[k] \o SubFrom(cls, s, i + Len(cls), k + 1, reps)
         ELSE <<s[i]>> \o SubFrom(cls, s, i + 1, k, reps)

\* re.sub(pattern, repl, s) for a well-formed pattern and template
ReSub(cls, tpl, s) ==
    LET starts == FindAll(cls, s)
    IN  SubFrom(cls, s, 1, 1,
                [k \in 1..Len(starts) |-> Expand(tpl, MatchText(cls, s, starts[k]))])

\* ---------------------------------------------------------------- Faker
\* attribute names of the Faker object: "n" is a provider method, "r" is an
\* attribute that is not callable (hasattr holds, calling it raises TypeError)
FakerAttrs == {<<"n">>, <<"r">>}

\* a check that finds every name
HasAttrAny(replacement) == TRUE

\* hasattr(self.faker, replacement)
HasAttr(replacement) == replacement \in FakerAttrs
Callable(replacement) == replacement = <<"n">>

\* what the provider may return: a string, or a number
FakerValues == {[t |-> "str", s |-> <<"a">>], [t |-> "int", n |-> 7]}

DigitChar == <<"0", "1", "2", "3", "4", "5", "6", "7", "8", "9">>

RECURSIVE Digits(_)
Digits(n) == IF n < 10 THEN <<DigitChar[n + 1]>>
             ELSE Digits(n \div 10) \o <<DigitChar[(n % 10) + 1]>>

\* str(value)
Str(v) == IF v.t = "str" THEN v.s ELSE Digits(v.n)

\* ---------------------------------------------------------------- state
VARIABLES
    args,           \* parsed command line: input_format, output_format, use_faker
    patterns_file,  \* the patterns file: status, patterns, replacements
    input_file,     \* the input file: status, doc (its lines / fields / leaves)
    output_file,    \* the output file: opened (created or truncated), content, closed
    replacer,       \* the DataPatternReplacer once constructed
    pc,             \* where main() is
    exit_status,    \* Running, or the process's completion status
    log,            \* the logging records emitted so far
    unit,           \* index of the line / field / leaf being processed
    sanitized,      \* the sanitized units collected so far
    text,           \* argument of the current replace_patterns call
    data,           \* replace_patterns: the local variable data
    idx,            \* replace_patterns: position in self.patterns.items()
    steps,          \* replace_patterns: what each loop iteration of this call did
    calls           \* the replace_patterns calls that returned: text, steps, ret

vars == <<args, patterns_file, input_file, output_file, replacer, pc, exit_status,
          log, unit, sanitized, text, data, idx, steps, calls>>

Running == -1
Formats == {"text", "json", "csv"}

NoReplacer == [built |-> FALSE, patterns |-> <<>>, replacements |-> <<>>,
               use_faker |-> FALSE]

Log(level, msg) == [level |-> level, msg |-> msg]

\* ---------------------------------------------------------------- inputs
Expr(cls) == [ok |-> TRUE, cls |-> cls]
BadExpr == [ok |-> FALSE, cls |-> <<>>]
GoodExprs == {Expr(<<{"a"}>>), Expr(<<{"a"}, {"b"}>>)}

LiteralDirectives == {<<>>, <<"x">>, <<BackRef0, "b">>, <<BackRef1>>}
FakerDirectives == {<<"n">>, <<"r">>, <<"x">>, <<BackRef1>>}

Entry(expr, has, tpl) == [expr |-> expr, has |-> has, tpl |-> tpl]

\* one (name, expression) item of "patterns" with its item of "replacements",
\* if it has one
Entries(directives) ==
    {Entry(e, TRUE, d) : e \in GoodExprs, d \in directives}
      \cup {Entry(e, FALSE, <<>>) : e \in GoodExprs \cup {BadExpr}}
      \cup {Entry(BadExpr, TRUE, <<"x">>)}

\* the patterns file holding the entries es, in order; names are 1, 2, ...
PatternsFile(status, es) ==
    [status |-> status,
     patterns |-> [i \in 1..Len(es) |-> [name |-> i, expr |-> es[i].expr]],
     replacements |-> [i \in {j \in 1..Len(es) : es[j].has} |-> es[i].tpl]]

StrUnit(s, row) == [kind |-> "str", val |-> s, row |-> row]
NumUnit(row) == [kind |-> "num", val |-> <<"7">>, row |-> row]

\* a text file: every line is a unit that is written on its own
TextDoc(ss) == [i \in 1..Len(ss) |-> StrUnit(ss[i], i)]

InitControl ==
    /\ output_file = [opened |-> FALSE, content |-> <<>>, closed |-> FALSE]
    /\ replacer = NoReplacer
    /\ pc = "main"
    /\ exit_status = Running
    /\ log = <<>>
    /\ unit = 0
    /\ sanitized = <<>>
    /\ text = <<>>
    /\ data = <<>>
    /\ idx = 0
    /\ steps = <<>>
    /\ calls = <<>>

\* one string through the engine, under every configuration
InitEngine ==
    /\ \E use_faker \in BOOLEAN :
         /\ args = [input_format |-> "text", output_format |-> "text",
                    use_faker |-> use_faker]
         /\ \E es \in SeqsUpTo(Entries(IF use_faker THEN FakerDirectives
                                                    ELSE LiteralDirectives),
                               MaxPatterns) :
              patterns_file = PatternsFile("ok", es)
    /\ \E s \in StringsUpTo(MaxLen) :
         input_file = [status |-> "ok", doc |-> TextDoc(<<s>>)]
    /\ InitControl

\* a CSV file: the fields of a row are written together
RowNumberings(n) ==
    {r \in [1..n -> 1..n] :
        /\ n > 0 => r[1] = 1
        /\ \A i \in 1..(n - 1) : r[i + 1] \in {r[i], r[i] + 1}}

CsvDocs(ss) == {[i \in 1..Len(ss) |-> StrUnit(ss[i], r[i])] : r \in RowNumberings(Len(ss))}

\* a JSON document, flattened to its leaves in traversal order: strings and
\* other scalars; nothing is written before the whole document is sanitized
JsonDocs(n) == SeqsUpTo({StrUnit(s, 1) : s \in StringsUpTo(1)} \cup {NumUnit(1)}, n)

Docs(format) ==
    CASE format = "text" -> {TextDoc(ss) : ss \in SeqsUpTo(StringsUpTo(1), MaxUnits)}
      [] format = "csv" -> UNION {CsvDocs(ss) : ss \in SeqsUpTo(StringsUpTo(1), MaxUnits)}
      [] OTHER -> JsonDocs(MaxUnits)

InputStatuses(format) ==
    IF format = "json" THEN {"ok", "missing", "invalid"} ELSE {"ok", "missing"}

RunEntries ==
    {Entry(Expr(<<{"a"}>>), TRUE, <<"x">>), Entry(Expr(<<{"a"}>>), TRUE, <<"r">>),
     Entry(Expr(<<{"a"}>>), TRUE, <<"n">>), Entry(BadExpr, TRUE, <<"x">>)}

\* a whole run: every format pair, missing and unparseable files, short inputs
InitRun ==
    /\ args \in [input_format : Formats, output_format : Formats, use_faker : BOOLEAN]
    /\ \/ \E status \in {"missing", "invalid"} : patterns_file = PatternsFile(status, <<>>)
       \/ \E es \in SeqsUpTo(RunEntries, 1) : patterns_file = PatternsFile("ok", es)
    /\ \E status \in InputStatuses(args.input_format) :
         IF status = "ok"
         THEN \E doc \in Docs(args.input_format) :
                 input_file = [status |-> status, doc |-> doc]
         ELSE input_file = [status |-> status, doc |-> <<>>]
    /\ InitControl

\* the same line twice, sanitized with generated values
InitPair ==
    /\ args = [input_format |-> "text", output_format |-> "text", use_faker |-> TRUE]
    /\ \E es \in SeqsUpTo(Entries(FakerDirectives), MaxPatterns) :
         patterns_file = PatternsFile("ok", es)
    /\ \E s \in StringsUpTo(MaxPairLen) :
         input_file = [status |-> "ok", doc |-> TextDoc(<<s, s>>)]
    /\ InitControl

\* ---------------------------------------------------------------- main
Exit(status, records) ==
    /\ exit_status' = status
    /\ log' = log \o records
    /\ pc' = "exit"

\* a handler that logs the error and lets main run on to its last line
FailRunFallThrough(msg) ==
    Exit(0, <<Log("ERROR", msg), Log("INFO", "Data sanitization complete")>>)

\* the handler that ends a failed run: the text branch logs and calls
\* sys.exit(1) itself; process_csv_file / process_json_file log and re-raise to
\* main's handler, which logs and calls sys.exit(1)
FailRun(msg) ==
    IF args.input_format = "text"
    THEN Exit(1, <<Log("ERROR", msg)>>)
    ELSE Exit(1, <<Log("ERROR", msg), Log("ERROR", "An error occurred")>>)

\* load_patterns_from_json, then DataPatternReplacer(...)
LoadPatterns ==
    /\ pc = "main"
    /\ IF patterns_file.status = "ok"
       THEN /\ replacer' = [built |-> TRUE,
                            patterns |-> patterns_file.patterns,
                            replacements |-> patterns_file.replacements,
                            use_faker |-> args.use_faker]
            /\ pc' = "open"
            /\ UNCHANGED <<exit_status, log>>
       ELSE /\ Exit(1, <<Log("ERROR", IF patterns_file.status = "missing"
                                      THEN "Patterns file not found"
                                      ELSE "Invalid JSON format in patterns file"),
                         Log("ERROR", "An error occurred")>>)
            /\ UNCHANGED replacer
    /\ UNCHANGED <<args, patterns_file, input_file, output_file, unit, sanitized,
                   text, data, idx, steps, calls>>

\* with open(input_file, 'r') as infile, open(output_file, 'w') as outfile:
\* the input is opened first; opening the output creates or truncates it.
\* process_json_file then parses the input with both files open.
OpenFiles ==
    /\ pc = "open"
    /\ IF input_file.status = "missing"
       THEN /\ FailRun("Input file not found")
            /\ UNCHANGED <<output_file, unit>>
       ELSE IF args.input_format = "json" /\ input_file.status = "invalid"
       THEN /\ output_file' = [opened |-> TRUE, content |-> <<>>, closed |-> TRUE]
            /\ FailRun("Invalid JSON format in input file")
            /\ UNCHANGED unit
       ELSE /\ output_file' = [opened |-> TRUE, content |-> <<>>, closed |-> FALSE]
            /\ unit' = 1
            /\ pc' = "process"
            /\ UNCHANGED <<exit_status, log>>
    /\ UNCHANGED <<args, patterns_file, input_file, replacer, sanitized, text, data,
                   idx, steps, calls>>

\* the next line, field or leaf: a string goes to replace_patterns, any other
\* JSON leaf is returned as it is
VisitUnit ==
    /\ pc = "process"
    /\ unit <= Len(input_file.doc)
    /\ LET u == input_file.doc[unit]
       IN  IF u.kind = "str"
           THEN /\ text' = u.val
                /\ data' = u.val
                /\ idx' = 1
                /\ steps' = <<>>
                /\ pc' = "replace"
                /\ UNCHANGED <<unit, sanitized>>
           ELSE /\ sanitized' = Append(sanitized, u)
                /\ unit' = unit + 1
                /\ UNCHANGED <<text, data, idx, steps, pc>>
    /\ UNCHANGED <<args, patterns_file, input_file, output_file, replacer,
                   exit_status, log, calls>>

\* ---------------------------------------------------------------- replace_patterns
\* history of one loop iteration: what it did, the string it scanned, where the
\* matches started, what replaced them, and data afterwards
Step(act, subject, starts, reps, result) ==
    [act |-> act, subject |-> subject, starts |-> starts, reps |-> reps,
     result |-> result]

\* a lookup that defaults to the empty string: .get(pattern_name, "")
LookupOrEmpty(replacements, pattern_name) ==
    IF pattern_name \in DOMAIN replacements
    THEN [found |-> TRUE, value |-> replacements[pattern_name]]
    ELSE [found |-> TRUE, value |-> <<>>]

\* self.replacements.get(pattern_name)
Lookup(replacements, pattern_name) ==
    IF pattern_name \in DOMAIN replacements
    THEN [found |-> TRUE, value |-> replacements[pattern_name]]
    ELSE [found |-> FALSE, value |-> <<>>]

\* every pattern applied to the call's argument instead of the running result
SubjectIsText(t, d) == t

\* data kept across calls: a later call scans what the first call returned
SubjectCarried(t, d) == IF calls = <<>> THEN d ELSE calls[1].ret

\* the string an iteration hands to re.sub: data = re.sub(pattern, ..., data)
Subject(t, d) == d

\* a handler that logs and goes on with the next pattern
RaiseAndContinue(records) ==
    /\ log' = log \o records \o <<Log("ERROR", "Error during pattern replacement")>>
    /\ steps' = Append(steps, Step("fault", Subject(text, data), <<>>, <<>>, data))
    /\ idx' = idx + 1
    /\ UNCHANGED <<data, pc>>

\* except Exception as e: logging.error(...); raise
Raise(records) ==
    /\ log' = log \o records \o <<Log("ERROR", "Error during pattern replacement")>>
    /\ steps' = Append(steps, Step("fault", Subject(text, data), <<>>, <<>>, data))
    /\ pc' = "raised"
    /\ UNCHANGED <<data, idx>>

\* data = re.sub(...), and on to the next pattern
Assign(act, starts, reps, records) ==
    /\ data' = SubFrom(replacer.patterns[idx].expr.cls, Subject(text, data), 1, 1, reps)
    /\ steps' = Append(steps, Step(act, Subject(text, data), starts, reps, data'))
    /\ log' = log \o records
    /\ idx' = idx + 1
    /\ UNCHANGED pc

\* one iteration of: for pattern_name, pattern in self.patterns.items()
PatternStep ==
    /\ pc = "replace"
    /\ idx <= Len(replacer.patterns)
    /\ LET pattern == replacer.patterns[idx].expr
           replacement == Lookup(replacer.replacements, replacer.patterns[idx].name)
           subject == Subject(text, data)
       IN  IF ~replacement.found
           THEN /\ log' = Append(log, Log("WARNING", "No replacement found for pattern"))
                /\ steps' = Append(steps, Step("skip", subject, <<>>, <<>>, data))
                /\ idx' = idx + 1
                /\ UNCHANGED <<data, pc>>
           ELSE IF replacer.use_faker /\ HasAttr(replacement.value)
           THEN IF \/ ~CompileOk(pattern)
                   \/ /\ FindAll(pattern.cls, subject) # <<>>
                      /\ ~Callable(replacement.value)
                THEN Raise(<<>>)
                ELSE LET starts == FindAll(pattern.cls, subject)
                     IN  \E vals \in [1..Len(starts) -> FakerValues] :
                            Assign("generate", starts,
                                   [k \in 1..Len(starts) |-> Str(vals[k])], <<>>)
           ELSE LET records == IF replacer.use_faker
                               THEN <<Log("WARNING", "Faker provider not found")>>
                               ELSE <<>>
                IN  IF ~CompileOk(pattern) \/ ~TemplateOk(replacement.value)
                    THEN Raise(records)
                    ELSE LET starts == FindAll(pattern.cls, subject)
                         IN  Assign(IF replacer.use_faker THEN "fallback" ELSE "literal",
                                    starts,
                                    [k \in 1..Len(starts) |->
                                       Expand(replacement.value,
                                              MatchText(pattern.cls, subject, starts[k]))],
                                    records)
    /\ UNCHANGED <<args, patterns_file, input_file, output_file, replacer,
                   exit_status, unit, sanitized, text, calls>>

\* the units of the row that ends at unit n of the document
RowOf(doc, done, n) ==
    SelectSeq(done, LAMBDA u : u.row = doc[n].row)

\* what the adapter writes once unit n is sanitized: the text branch writes the
\* line, process_csv_file writes the row when its last field is done,
\* process_json_file writes nothing before the whole document is sanitized
Written(format, doc, done, n) ==
    CASE format = "text" -> <<done[n]>>
      [] format = "csv" ->
            IF n = Len(doc) \/ doc[n + 1].row # doc[n].row
            THEN RowOf(doc, done, n) ELSE <<>>
      [] OTHER -> <<>>

\* return data, and the adapter's use of the returned string
ReturnData ==
    /\ pc = "replace"
    /\ idx > Len(replacer.patterns)
    /\ calls' = Append(calls, [unit |-> unit, text |-> text, steps |-> steps,
                               ret |-> data])
    /\ sanitized' = Append(sanitized, [input_file.doc[unit] EXCEPT !.val = data])
    /\ output_file' = [output_file EXCEPT
                         !.content = @ \o Written(args.input_format, input_file.doc,
                                                  sanitized', unit)]
    /\ unit' = unit + 1
    /\ pc' = "process"
    /\ text' = <<>>
    /\ data' = <<>>
    /\ idx' = 0
    /\ steps' = <<>>
    /\ UNCHANGED <<args, patterns_file, input_file, replacer, exit_status, log>>

\* the exception raised by replace_patterns reaches the adapter: the with
\* statement closes the files and the handlers end the run
HandleFault ==
    /\ pc = "raised"
    /\ output_file' = [output_file EXCEPT !.closed = TRUE]
    /\ FailRun(CASE args.input_format = "text" -> "Error processing text file"
                 [] args.input_format = "csv" -> "Error processing CSV file"
                 [] OTHER -> "Error processing JSON file")
    /\ UNCHANGED <<args, patterns_file, input_file, replacer, unit, sanitized,
                   text, data, idx, steps, calls>>

\* the input is exhausted: json.dump for JSON, the files are closed, the
\* completion message is logged and main returns
Finish ==
    /\ pc = "process"
    /\ unit > Len(input_file.doc)
    /\ output_file' = [opened |-> TRUE,
                       content |-> IF args.input_format = "json" THEN sanitized
                                   ELSE output_file.content,
                       closed |-> TRUE]
    /\ Exit(0, <<Log("INFO", "Data sanitization complete")>>)
    /\ UNCHANGED <<args, patterns_file, input_file, replacer, unit, sanitized,
                   text, data, idx, steps, calls>>

Next ==
    \/ LoadPatterns
    \/ OpenFiles
    \/ VisitUnit
    \/ PatternStep
    \/ ReturnData
    \/ HandleFault
    \/ Finish

Init == InitEngine \/ InitRun

Spec == Init /\ [][Next]_vars

SpecPair == InitPair /\ [][Next]_vars

\* ---------------------------------------------------------------- claims
\* the configuration as the patterns file states it
Patterns == patterns_file.patterns
HasDirective(j) == Patterns[j].name \in DOMAIN patterns_file.replacements
Directive(j) == patterns_file.replacements[Patterns[j].name]
Cls(j) == Patterns[j].expr.cls
Generated(j) == args.use_faker /\ HasDirective(j) /\ Directive(j) \in FakerAttrs

\* s holds a match of the expression
Search(cls, s) == \E i \in 1..Len(s) : MatchAt(cls, s, i)

Returned == {calls[i] : i \in DOMAIN calls}
Count(records, r) == Cardinality({i \in DOMAIN records : records[i] = r})

\* pattern j alone applied to s; st supplies the values the generator returned
SubstituteOne(j, s, st) ==
    IF ~HasDirective(j) THEN s
    ELSE IF Generated(j) THEN SubFrom(Cls(j), s, 1, 1, st.reps)
    ELSE ReSub(Cls(j), Directive(j), s)

RECURSIVE FoldOver(_, _, _)
FoldOver(js, s, sts) ==
    IF js = <<>> THEN s
    ELSE FoldOver(Tail(js), SubstituteOne(Head(js), s, sts[Head(js)]), sts)

\* C1: the string a call returns is the left-to-right fold of the
\* single-pattern substitution over the patterns in mapping order, each pattern
\* scanning the result of the one before it; the same holds of data after
\* every iteration of a call in progress.
C1_SequentialFold ==
    /\ \A c \in Returned :
          /\ Len(c.steps) = Len(Patterns)
          /\ c.ret = FoldOver([j \in 1..Len(Patterns) |-> j], c.text, c.steps)
    /\ pc = "replace" =>
          /\ Len(steps) = idx - 1
          /\ data = FoldOver([j \in 1..Len(steps) |-> j], text, steps)

\* C1 witness: the second pattern matches nothing in the call's argument, yet
\* replaces text that the first pattern's replacement introduced.
C1_Witness ==
    \E c \in Returned :
       /\ Len(c.steps) = 2
       /\ c.steps[1].starts # <<>>
       /\ ~Search(Cls(2), c.text)
       /\ c.steps[2].starts # <<>>
       /\ Search(Cls(1), c.ret)

\* evaluating pattern j on s raises
Raises(j, s) ==
    /\ HasDirective(j)
    /\ \/ ~CompileOk(Patterns[j].expr)
       \/ IF Generated(j)
          THEN FindAll(Cls(j), s) # <<>> /\ ~Callable(Directive(j))
          ELSE ~TemplateOk(Directive(j))

\* C2: an iteration ends in a fault exactly when evaluating its pattern
\* raises; the fault is logged and ends the call at that pattern: no later
\* pattern is applied, data is not returned (the caller gets no string for
\* that unit, not even the partly rewritten one), and the run ends non-zero.
C2_FaultPropagates ==
    /\ \A j \in 1..Len(steps) :
          /\ steps[j].act = "fault" <=> Raises(j, steps[j].subject)
          /\ steps[j].act = "fault" =>
                /\ j = Len(steps)
                /\ idx = j
                /\ pc \in {"raised", "exit"}
                /\ Count(log, Log("ERROR", "Error during pattern replacement")) = 1
                /\ \A c \in Returned : c.unit # unit
                /\ Len(sanitized) = unit - 1
                /\ pc = "exit" => exit_status = 1
    /\ \A c \in Returned : \A j \in 1..Len(c.steps) :
          /\ c.steps[j].act # "fault"
          /\ ~Raises(j, c.steps[j].subject)
    /\ pc = "raised" => steps # <<>> /\ steps[Len(steps)].act = "fault"

\* C2 witness: the first pattern rewrote the text, the second one raised, and
\* the run ended without a string for that unit.
C2_Witness ==
    /\ pc = "exit"
    /\ Len(steps) = 2
    /\ steps[1].starts # <<>>
    /\ steps[1].result # text
    /\ steps[2].act = "fault"
    /\ Len(Patterns) > 2 \/ Len(sanitized) < Len(input_file.doc)

KeptIndices == SelectSeq([j \in 1..Len(Patterns) |-> j], HasDirective)

SkipsOf(sts) == Cardinality({j \in DOMAIN sts : sts[j].act = "skip"})

RECURSIVE SumSkips(_)
SumSkips(cs) == IF cs = <<>> THEN 0 ELSE SkipsOf(Head(cs).steps) + SumSkips(Tail(cs))

\* C3: an iteration on a pattern that has no replacement raises nothing,
\* leaves data as it is and logs one warning, and the returned string is the
\* fold over the patterns that do have a replacement, that is, the result of
\* the same call with the others removed from the pattern set.
C3_MissingDirectiveSkipped ==
    /\ \A j \in 1..Len(steps) :
          ~HasDirective(j) => steps[j].act = "skip" /\ steps[j].result = steps[j].subject
    /\ \A c \in Returned :
          /\ \A j \in 1..Len(c.steps) :
                ~HasDirective(j) =>
                    c.steps[j].act = "skip" /\ c.steps[j].result = c.steps[j].subject
          /\ c.ret = FoldOver(KeptIndices, c.text, c.steps)
    /\ Count(log, Log("WARNING", "No replacement found for pattern"))
          = SumSkips(calls) + SkipsOf(steps)

\* C3 witness: generator mode, the second of two patterns has no replacement
\* and the returned string still holds a match of it.
C3_Witness ==
    \E c \in Returned :
       /\ args.use_faker
       /\ Len(Patterns) = 2
       /\ HasDirective(1) /\ ~HasDirective(2)
       /\ c.steps[1].starts # <<>>
       /\ CompileOk(Patterns[2].expr)
       /\ Search(Cls(2), c.ret)

\* every iteration on record, with the position of its pattern
AllSteps ==
    {<<j, steps[j]>> : j \in DOMAIN steps}
      \cup UNION {{<<j, c.steps[j]>> : j \in DOMAIN c.steps} : c \in Returned}

\* generator mode, and the directive of pattern j names no Faker attribute
Unknown(j) == args.use_faker /\ HasDirective(j) /\ Directive(j) \notin FakerAttrs

\* C4 as claimed: in generator mode an iteration whose directive names no
\* capability never ends in a fault (here for well-formed expressions only).
C4_FallbackNeverFaults ==
    \A js \in AllSteps :
       Unknown(js[1]) /\ CompileOk(Patterns[js[1]].expr) => js[2].act # "fault"

\* C4 amended: in generator mode an iteration whose directive names no
\* capability logs one warning and then does exactly what literal mode does
\* with that directive: it replaces every match by the directive's expansion,
\* and it raises where literal mode raises (malformed expression, invalid
\* replacement template).  Patterns of the same call whose directive names a
\* provider get one generated value per match.
C4_FallbackAsLiteral ==
    /\ \A js \in AllSteps :
          LET j == js[1]
              st == js[2]
          IN  /\ Unknown(j) =>
                    IF CompileOk(Patterns[j].expr) /\ TemplateOk(Directive(j))
                    THEN /\ st.act = "fallback"
                         /\ st.starts = FindAll(Cls(j), st.subject)
                         /\ st.result = ReSub(Cls(j), Directive(j), st.subject)
                    ELSE st.act = "fault" /\ st.result = st.subject
              /\ Generated(j) /\ Callable(Directive(j)) /\ CompileOk(Patterns[j].expr) =>
                    /\ st.act = "generate"
                    /\ st.starts = FindAll(Cls(j), st.subject)
                    /\ Len(st.reps) = Len(st.starts)
                    /\ \A k \in DOMAIN st.reps : st.reps[k] \in {Str(v) : v \in FakerValues}
                    /\ st.result = SubFrom(Cls(j), st.subject, 1, 1, st.reps)
    /\ args.use_faker =>
          Count(log, Log("WARNING", "Faker provider not found"))
             = Cardinality({i \in DOMAIN steps : Unknown(i)})
               + Cardinality({<<n, i>> \in (DOMAIN calls) \X (1..Len(Patterns)) : Unknown(i)})

\* C4 witness: a call in generator mode returned after one pattern fell back
\* to its literal directive and another had its match replaced by a generated
\* value.
C4_Witness ==
    \E c \in Returned : \E i, j \in DOMAIN c.steps :
       /\ c.steps[i].act = "fallback" /\ c.steps[i].starts # <<>>
       /\ c.steps[j].act = "generate" /\ c.steps[j].starts # <<>>
       /\ c.ret # c.text

\* the string returned for unit i
RetOf(i) == (CHOOSE c \in Returned : c.unit = i).ret

\* the output file holds the whole sanitized document and is closed
FullyWritten ==
    /\ output_file.opened
    /\ output_file.closed
    /\ Len(output_file.content) = Len(input_file.doc)
    /\ \A i \in DOMAIN input_file.doc :
          output_file.content[i] =
             IF input_file.doc[i].kind = "str"
             THEN [input_file.doc[i] EXCEPT !.val = RetOf(i)]
             ELSE input_file.doc[i]

\* C5 as claimed: a run ends either with the complete output written or
\* with the output file never created or truncated.
C5_AllOrNothing ==
    pc = "exit" => IF exit_status = 0 THEN FullyWritten ELSE ~output_file.opened

\* C6 as claimed: a run whose input and output formats differ is rejected:
\* it ends non-zero and never opens the output file.
C6_MismatchRejected ==
    args.input_format # args.output_format /\ pc = "exit" =>
        exit_status = 1 /\ ~output_file.opened

Completion == Log("INFO", "Data sanitization complete")

Fatal ==
    \/ patterns_file.status # "ok"
    \/ input_file.status # "ok"
    \/ steps # <<>> /\ steps[Len(steps)].act = "fault"

\* C7: the run reports status zero only with the output fully written and
\* the completion message logged once; a run that met a fatal error (patterns
\* file missing or unparseable, input file missing, JSON input unparseable, a
\* fault out of replace_patterns) ends with status one and no completion
\* message; with a bad patterns file nothing is read, opened or sanitized.
C7_ExitStatus ==
    /\ exit_status # Running <=> pc = "exit"
    /\ exit_status \in {Running, 0, 1}
    /\ exit_status = 0 => FullyWritten /\ ~Fatal /\ Count(log, Completion) = 1
    /\ pc = "exit" /\ Fatal =>
          /\ exit_status = 1
          /\ Count(log, Completion) = 0
          /\ log[Len(log)].level = "ERROR"
    /\ Count(log, Completion) > 0 => exit_status = 0
    /\ patterns_file.status # "ok" =>
          /\ pc \in {"main", "exit"}
          /\ ~replacer.built
          /\ ~output_file.opened
          /\ unit = 0 /\ sanitized = <<>>
          /\ calls = <<>> /\ steps = <<>>

\* C7 witness: a CSV run of two fields ended with status zero and a rewritten
\* field in the output.
C7_Witness ==
    /\ pc = "exit" /\ exit_status = 0
    /\ args.input_format = "csv"
    /\ Len(output_file.content) = 2
    /\ \E i \in 1..2 : output_file.content[i].val # input_file.doc[i].val

\* where each pattern of a call replaced something
Spans(c) == [j \in DOMAIN c.steps |-> c.steps[j].starts]

\* C8 as claimed: two calls in generator mode on the same input replace the
\* same spans, pattern by pattern, whatever the generator returned.
C8_SameSpans ==
    \A c1, c2 \in Returned : c1.text = c2.text => Spans(c1) = Spans(c2)

\* no pattern before j replaced a match by a generated value in call c
NothingGeneratedBefore(c, j) ==
    \A i \in 1..(j - 1) : c.steps[i].act # "generate" \/ c.steps[i].starts = <<>>

\* C8 amended: two calls in generator mode on the same input scan the same
\* string and replace the same spans for every pattern up to and including
\* the first one whose matches are replaced by generated values; the spans of
\* the patterns after it depend on the values generated.
C8_SameSpansUpToGenerated ==
    \A c1, c2 \in Returned :
       c1.text = c2.text =>
          /\ Len(c1.steps) = Len(c2.steps)
          /\ \A j \in DOMAIN c1.steps :
                NothingGeneratedBefore(c1, j) =>
                   /\ c1.steps[j].subject = c2.steps[j].subject
                   /\ c1.steps[j].starts = c2.steps[j].starts
                   /\ c1.steps[j].act = c2.steps[j].act

\* C8 witness: the same line was sanitized twice, the first pattern's match
\* was replaced by two different generated values, and the second pattern
\* then replaced a span in one call and none in the other.
C8_Witness ==
    \E c1, c2 \in Returned :
       /\ c1.unit # c2.unit /\ c1.text = c2.text
       /\ Len(c1.steps) = 2
       /\ c1.steps[1].act = "generate" /\ c1.steps[1].starts # <<>>
       /\ c1.steps[1].reps # c2.steps[1].reps
       /\ c1.steps[2].starts # c2.steps[2].starts

\* the texts the expression can match
MatchTexts(cls) == {m \in [1..Len(cls) -> UNION {cls[k] : k \in DOMAIN cls}] :
                       \A k \in DOMAIN cls : m[k] \in cls[k]}

\* the directive, expanded for some match, holds a match of the expression
Reproduces(cls, tpl) == \E m \in MatchTexts(cls) : Search(cls, Expand(tpl, m))

\* C9 as claimed: in literal mode the returned string holds a match of a
\* pattern that has a directive only if that directive reproduces matching
\* text.
C9_NoMatchLeft ==
    ~args.use_faker =>
       \A c \in Returned : \A j \in DOMAIN c.steps :
          HasDirective(j) /\ Search(Cls(j), c.ret) => Reproduces(Cls(j), Directive(j))

\* the directive is a non-empty string of plain characters, none of which can
\* occur in a match of the expression
Foreign(cls, tpl) ==
    /\ tpl # <<>>
    /\ \A k \in DOMAIN tpl :
          /\ tpl[k] \notin {BackRef0, BackRef1}
          /\ \A n \in DOMAIN cls : tpl[k] \notin cls[n]

\* C9 amended: in literal mode the returned string holds no match of a
\* pattern when the directive of that pattern and of every pattern applied
\* after it is a non-empty string of plain characters that cannot occur in a
\* match of the pattern.  (Otherwise a match can remain: the text around a
\* removed match joins, or a replacement completes a match with its
\* neighbours.)
C9_NoMatchLeftWhenForeign ==
    ~args.use_faker =>
       \A c \in Returned : \A j \in DOMAIN c.steps :
          /\ HasDirective(j)
          /\ \A k \in j..Len(Patterns) :
                HasDirective(k) => Foreign(Cls(j), Directive(k))
          => ~Search(Cls(j), c.ret)

\* C9 witness: literal mode, two patterns with foreign directives, both found
\* matches and replaced them, and the call returned.
C9_Witness ==
    \E c \in Returned :
       /\ ~args.use_faker
       /\ Len(c.steps) = 2
       /\ HasDirective(1) /\ HasDirective(2)
       /\ Foreign(Cls(1), Directive(1)) /\ Foreign(Cls(1), Directive(2))
       /\ c.steps[1].starts # <<>>
       /\ c.steps[2].starts # <<>>

\* no configured pattern matches anywhere in s (all expressions well-formed)
NoMatch(s) ==
    \A j \in DOMAIN Patterns : CompileOk(Patterns[j].expr) /\ ~Search(Cls(j), s)

\* the call on text t ended by returning t, without a generated value
Identity(t, sts, d) ==
    /\ d = t
    /\ \A j \in DOMAIN sts : sts[j].act # "fault" /\ sts[j].reps = <<>>

\* C10 as claimed: a call on a string that no configured pattern matches
\* returns the string unchanged, in both modes and whatever the directives
\* are, without a generated value (stated here for well-formed expressions,
\* the reading most favourable to the claim).
C10_IdentityOnNoMatch ==
    /\ \A c \in Returned : NoMatch(c.text) => Identity(c.text, c.steps, c.ret)
    /\ pc \in {"replace", "raised"} /\ NoMatch(text) => Identity(text, steps, data)

\* every directive that re.sub receives as replacement text is a valid template
TemplatesOk ==
    \A j \in DOMAIN Patterns :
       HasDirective(j) /\ ~Generated(j) => TemplateOk(Directive(j))

\* C10 amended: a call on a string that no configured pattern matches returns
\* the string unchanged, in both modes and without a generated value, provided
\* every directive used as replacement text is a valid replacement template
\* (an invalid one makes re.sub raise although nothing matches).  The units
\* a JSON run collects keep kind, position and order; leaves that are not
\* strings, and string leaves that match no pattern, keep their value.
C10_IdentityOnNoMatchValid ==
    /\ TemplatesOk =>
          /\ \A c \in Returned : NoMatch(c.text) => Identity(c.text, c.steps, c.ret)
          /\ pc \in {"replace", "raised"} /\ NoMatch(text) => Identity(text, steps, data)
    /\ Len(sanitized) <= Len(input_file.doc)
    /\ \A i \in DOMAIN sanitized :
          LET u == input_file.doc[i]
          IN  /\ sanitized[i].kind = u.kind
              /\ sanitized[i].row = u.row
              /\ u.kind # "str" => sanitized[i] = u
              /\ u.kind = "str" /\ TemplatesOk /\ NoMatch(u.val) => sanitized[i] = u
    /\ args.input_format = "json" /\ exit_status = 0 => output_file.content = sanitized

\* C10 witness: a JSON run in generator mode ended with status zero; its
\* document holds a number and a non-empty string that the pattern, whose
\* directive names a provider, does not match.
C10_Witness ==
    /\ pc = "exit" /\ exit_status = 0
    /\ args.input_format = "json" /\ args.use_faker
    /\ Len(Patterns) = 1 /\ Generated(1) /\ Callable(Directive(1))
    /\ \E i, j \in DOMAIN input_file.doc :
          /\ input_file.doc[i].kind = "num"
          /\ input_file.doc[j].kind = "str"
          /\ input_file.doc[j].val # <<>>
          /\ NoMatch(input_file.doc[j].val)
          /\ output_file.content[j] = input_file.doc[j]

====
